---- MODULE Spec2Model ----
(***************************************************************************)
(* The in-page editor of cms-module-client as a state machine.             *)
(*                                                                         *)
(* The repository holds three revisions of the CMS class; the variable     *)
(* rev says which one a behaviour runs:                                    *)
(*   "root"  src/index.js            (sections keyed by selector path)     *)
(*   "early" src/src/index.js:23-589 with src/src/lib/util.js              *)
(*   "late"  src/src/index.js:616-1361 with src/unnamed/part_001           *)
(*                                                                         *)
(* A page is a small element tree below body.  The serialized content of   *)
(* an element (innerHTML) is computed from the live tree: the text of the  *)
(* element and, for each child, its tag, class list, attributes and        *)
(* content.  Two serializations are equal exactly when the strings the     *)
(* browser would produce are equal.                                        *)
(***************************************************************************)
EXTENDS Integers, Sequences, FiniteSets, TLC

(* ------------------------------ bounds --------------------------------- *)

\* Every edit of a node gives it a text it never had before: texts are
\* numbered 0 (the page as loaded) to MaxText, so a node is edited at most
\* MaxText times.
MaxText == 1

\* Requests that may be awaiting a response at the same time.
MaxInFlight == 1

\* The same for a save() called by the timer of the late revision, which
\* fires every minute whatever is awaiting a response.
MaxOverlap == 2

\* mousedown listeners that _edit may have pending on the document (root).
MaxAbort == 2

\* input listeners that _addLocalToolbar may leave on one element.
MaxListeners == 3

(* ------------------------------ the page ------------------------------- *)

Body == 0

Nodes == {1, 2, 3}

\* Nodes are numbered in document order (pre-order).
DocOrder == <<1, 2, 3>>

\* flat:   body > p(1) > b(2),  h1(3)
\* nested: body > ul(1) > li(2) > a(3)
\* mixed:  body > div(1) > p(2),  p(3)
PageTags ==
  [flat   |-> <<"p", "b", "h1">>,
   nested |-> <<"ul", "li", "a">>,
   mixed  |-> <<"div", "p", "p">>]

PageParents ==
  [flat   |-> <<0, 1, 0>>,
   nested |-> <<0, 1, 2>>,
   mixed  |-> <<0, 1, 0>>]

\* The nodes whose text the user rewrites: a list and its items hold only
\* elements, and the text of the bold run stays as loaded.
PageText ==
  [flat   |-> <<TRUE, FALSE, TRUE>>,
   nested |-> <<FALSE, FALSE, TRUE>>,
   mixed  |-> <<FALSE, TRUE, TRUE>>]

\* The id attribute of each node ("" when it has none).
PageIds ==
  [flat   |-> <<"", "", "">>,
   nested |-> <<"", "", "">>,
   mixed  |-> <<"", "", "">>]

\* The pages the editor is run on.
Layouts == {"flat", "nested"}

\* The page the paths of same-tag elements in different containers are
\* computed on.
PathLayouts == {"mixed"}

\* The pages the root revision is run on.
RootLayouts == {"flat"}

Revs == {"root", "early", "late"}

\* Targets of pointer events that are not nodes of the page tree: the
\* contextual (local) toolbar element, and any element of class cms-btn.
ToolbarT == -1
BtnT == -2

VARIABLES
  rev,              \* which revision of the class runs
  layout,           \* the page
  meta,             \* the page's head has description and keywords meta tags
  saveUrl,          \* the saveUrl and publishUrl options are set
  pc,               \* "constructed", "running", "unloaded"
  text,             \* live DOM: text of each node
  classes,          \* live DOM: class list of each node
  attrs,            \* live DOM: attributes present on each node
  toolbars,         \* number of .local-toolbar elements in the document
  prompt,           \* the modal prompt is shown
  sections,         \* this.sections
  inflight,         \* requests awaiting their response
  cursor,           \* document.body.style.cursor (early, late)
  loading,          \* html has class "loading" (root)
  saveDisabled,     \* the save button carries the disabled attribute
  publishDisabled,  \* the publish button carries the disabled attribute
  abortListeners,   \* pending once-listeners for mousedown on document (root)
  inputListeners,   \* input listeners on each node (early, late)
  fcall,            \* a call of a function of the library, and what it gave
  last              \* what the most recent handler did

vars ==
  <<rev, layout, meta, saveUrl, pc, text, classes, attrs, toolbars, prompt,
    sections, inflight, cursor, loading, saveDisabled, publishDisabled, abortListeners,
    inputListeners, fcall, last>>

dom == <<text, classes, attrs>>

Tag(n) == IF n = Body THEN "body" ELSE PageTags[layout][n]

Parent(n) == PageParents[layout][n]

Id(n) == PageIds[layout][n]

Children(n) == SelectSeq(DocOrder, LAMBDA c : Parent(c) = n)

RECURSIVE Chain(_)
\* n and its ancestors below body, innermost first.
Chain(n) == IF n = Body THEN <<>> ELSE <<n>> \o Chain(Parent(n))

Range(s) == {s[i] : i \in DOMAIN s}

Reverse(s) == [i \in 1..Len(s) |-> s[Len(s) + 1 - i]]

\* The empty string.
EmptyStr == [text |-> -1, kids |-> <<>>]

RECURSIVE innerHTML(_, _, _, _)
outerHTML(n, txt, cls, atr) ==
  [tag   |-> Tag(n),
   class |-> cls[n],
   attrs |-> atr[n],
   inner |-> innerHTML(n, txt, cls, atr)]

innerHTML(n, txt, cls, atr) ==
  [text |-> txt[n],
   kids |-> [i \in 1..Len(Children(n)) |->
               outerHTML(Children(n)[i], txt, cls, atr)]]

\* el.classList.add(c): the class attribute exists from then on.
classListAdd(cls, n, c) == [cls EXCEPT ![n] = @ \cup {c}]

classListRemove(cls, n, c) == [cls EXCEPT ![n] = @ \ {c}]

setAttribute(atr, n, a) == [atr EXCEPT ![n] = @ \cup {a}]

removeAttribute(atr, n, a) == [atr EXCEPT ![n] = @ \ {a}]

IsEditing(n) == "contenteditable" \in attrs[n]

\* n lies in an editing host: typing and execCommand can change it.
InEditingHost(n) == \E a \in Range(Chain(n)) : IsEditing(a)

(* --------------------------- constructor ------------------------------- *)

\* this.tags
Tags == {"a", "p", "h1", "h2", "h3", "h4", "h5", "h6", "ul", "ol"}

childTags == {"li", "b", "i", "span", "u", "strike", "a"}

(* --------------------------- selector paths ---------------------------- *)

\* Iteration cap of the parent-chain climb.
ClimbCap == 50

\* A path is the sequence of its space-separated compound selectors, each
\* [tag, id, classes, nth]; nth = 0 stands for no :nth-child() part.
Selector(t, i, c, k) == [tag |-> t, id |-> i, classes |-> c, nth |-> k]

\* 1-based position of n among the children of its parent.
NthChild(n) ==
  CHOOSE k \in 1..Len(Children(Parent(n))) : Children(Parent(n))[k] = n

\* getSelector of src/index.js and src/src/lib/util.js; ignore is the class
\* left out of the class list.
getSelectorOld(el, cls, ignore) ==
  IF Id(el) # ""
    THEN Selector(Tag(el), Id(el), {}, 0)
    ELSE Selector(Tag(el), "", cls[el] \ {ignore}, 0)

RECURSIVE ClimbOld(_, _, _, _)
\* The while loop of getSelectorPath: the selectors appended for parent and
\* the elements above it, in the order the loop appends them.
ClimbOld(parent, i, cls, ignore) ==
  IF Tag(parent) = "body"
    THEN <<>>
    ELSE <<getSelectorOld(parent, cls, ignore)>> \o
         (IF i > ClimbCap
            THEN <<>>
            ELSE ClimbOld(Parent(parent), i + 1, cls, ignore))

getSelectorPathOld(el, cls, ignore) ==
  LET own == [getSelectorOld(el, cls, ignore) EXCEPT !.nth = NthChild(el)]
  IN  Reverse(<<own>> \o ClimbOld(Parent(el), 0, cls, ignore))

SameNameSiblings(el) ==
  SelectSeq(Children(Parent(el)), LAMBDA c : Tag(c) = Tag(el))

\* getSelector of src/unnamed/part_001.
getSelector(el, cls) ==
  IF Id(el) # ""
    THEN Selector(Tag(el), Id(el), {}, 0)
    ELSE Selector(Tag(el), "", cls[el] \ {"cms-editable"},
                  IF NthChild(el) > 1 /\ Len(SameNameSiblings(el)) > 1
                    THEN NthChild(el) ELSE 0)

RECURSIVE ClimbLate(_, _)
ClimbLate(parent, cls) ==
  IF Tag(parent) = "body"
    THEN <<>>
    ELSE ClimbLate(Parent(parent), cls) \o <<getSelector(parent, cls)>>

\* getSelectorPath of src/unnamed/part_001.
getSelectorPath(el, cls) == ClimbLate(Parent(el), cls) \o <<getSelector(el, cls)>>

\* The class each revision leaves out of a path.
IgnoredClass == IF rev = "root" THEN "cms-input-field" ELSE "cms-editable"

PathOf(el, cls) ==
  IF rev = "late"
    THEN getSelectorPath(el, cls)
    ELSE getSelectorPathOld(el, cls, IgnoredClass)

\* element.matches(compound selector)
MatchesSelector(n, sel) ==
  /\ Tag(n) = sel.tag
  /\ sel.id # "" => Id(n) = sel.id
  /\ sel.classes \subseteq classes[n]
  /\ sel.nth # 0 => NthChild(n) = sel.nth

RECURSIVE MatchesPath(_, _, _)
\* n matches the first k compound selectors of path, joined by descendant
\* combinators.
MatchesPath(n, path, k) ==
  /\ n # Body
  /\ MatchesSelector(n, path[k])
  /\ \/ k = 1
     \/ \E a \in Range(Chain(Parent(n))) : MatchesPath(a, path, k - 1)

\* document.querySelector(path): the first match in document order, Body
\* when there is none (null).
querySelector(path) ==
  LET hits == SelectSeq(DocOrder, LAMBDA n : MatchesPath(n, path, Len(path)))
  IN  IF hits = <<>> THEN Body ELSE hits[1]

(* ------------------------------ registry ------------------------------- *)

\* getTopParent of src/src/lib/util.js: the nearest element, from el upwards,
\* whose tag is editable.  Only called on targets inside a registered
\* element, where the loop ends below body.
RECURSIVE getTopParentNearest(_)
getTopParentNearest(el) ==
  IF el = Body \/ Tag(el) \in Tags
    THEN el
    ELSE getTopParentNearest(Parent(el))

\* getTopParent of src/unnamed/part_001: the outermost element, from body
\* down to el, whose tag is editable; Body when there is none (undefined).
getTopParent(el) ==
  LET down == Reverse(Chain(el))
      hits == SelectSeq(down, LAMBDA n : Tag(n) \in Tags)
  IN  IF hits = <<>> THEN Body ELSE hits[1]

Section(el, org, edt, sav, path) ==
  [element |-> el, original_text |-> org, edited_text |-> edt,
   saved_text |-> sav, path |-> path]

\* document.querySelectorAll(this.tags.join(", "))
EditableElements == SelectSeq(DocOrder, LAMBDA n : Tag(n) \in Tags)

RECURSIVE RegisterAll(_, _, _, _)
\* The for loop of run() in src/src/index.js over elems, from the registry
\* secs and the class lists cls and attributes atr reached so far.
RegisterAll(elems, secs, cls, atr) ==
  IF elems = <<>>
    THEN [sections |-> secs, classes |-> cls, attrs |-> atr]
    ELSE LET el   == IF rev = "late" THEN getTopParent(Head(elems)) ELSE Head(elems)
             html == innerHTML(el, text, cls, atr)
         IN  RegisterAll(Tail(elems),
                         Append(secs, Section(el, html, html, html, PathOf(el, cls))),
                         classListAdd(cls, el, "cms-editable"),
                         setAttribute(atr, el, "class"))

RECURSIVE RegisterAllRoot(_, _)
\* The for loop of run() in src/index.js; these sections have no element
\* field (element is Body here).
RegisterAllRoot(elems, secs) ==
  IF elems = <<>>
    THEN secs
    ELSE LET el == Head(elems)
         IN  RegisterAllRoot(Tail(elems),
               Append(secs, Section(Body, innerHTML(el, text, classes, attrs),
                                    EmptyStr, EmptyStr, PathOf(el, classes))))

\* findSection: index of the first section backed by element, 0 if none.
findSection(element, secs) ==
  LET hits == SelectSeq([i \in 1..Len(secs) |-> i], LAMBDA i : secs[i].element = element)
  IN  IF hits = <<>> THEN 0 ELSE hits[1]

\* _findSectionByPath: index of the last section with this path, 0 if none.
findSectionByPath(path, secs) ==
  LET hits == SelectSeq([i \in 1..Len(secs) |-> i], LAMBDA i : secs[i].path = path)
  IN  IF hits = <<>> THEN 0 ELSE hits[Len(hits)]

\* findChangedSections: the changed sections, as references (indices) into
\* the registry.
findChangedSections(secs) ==
  SelectSeq([i \in 1..Len(secs) |-> i],
            LAMBDA i : secs[i].edited_text # secs[i].saved_text)

\* _changedSinceSave
changedSinceSave(secs) ==
  IF rev = "late"
    THEN TRUE
    ELSE \E i \in 1..Len(secs) : secs[i].edited_text # secs[i].saved_text

\* _changedSincePublish
changedSincePublish(secs) ==
  IF rev = "late"
    THEN TRUE
    ELSE \E i \in 1..Len(secs) : secs[i].saved_text # secs[i].original_text

\* The disabled attribute _setSaveStatus leaves on the save button.
saveStatus(secs) ==
  IF rev = "root" THEN changedSinceSave(secs) ELSE ~changedSinceSave(secs)

\* The disabled attribute _setPublishStatus leaves on the publish button;
\* old is its value so far.
publishStatus(secs, old) ==
  CASE rev = "root"  -> changedSincePublish(secs)
    [] rev = "early" -> ~changedSincePublish(secs)
    [] OTHER         -> old

(* ------------------------------ history -------------------------------- *)

\* What the most recent handler did: op names it; src is the caller of a
\* save; kind and outcome describe the request a response belongs to; sent:
\* the handler issued a request; reported: it called _error; threw: it ended
\* with an uncaught exception; quiet: no edit was committed while the request
\* was awaiting its response; exit: the handler ran the Editing -> Idle exit
\* transition (it got past the checks that leave the region alone);
\* prevented, stopped: the keydown handler called preventDefault,
\* stopImmediatePropagation on the key event; invoked: how often it called
\* the action of a shortcut.
Note(op) ==
  [op |-> op, src |-> "none", kind |-> "none", outcome |-> "none",
   sent |-> FALSE, reported |-> FALSE, threw |-> FALSE, quiet |-> FALSE,
   exit |-> FALSE, prevented |-> FALSE, stopped |-> FALSE, invoked |-> 0]

\* this.auth: the credential handed to the constructor (the session id of
\* the README).
auth == "SESSION_ID"

\* The Authorization header save() and publish() put on a request; "" is a
\* request without the header.  Only src/index.js reads this.auth.
Authorization == IF rev = "root" /\ auth # "" THEN auth ELSE ""

Request(kind, changed, body) ==
  [kind |-> kind, changed |-> changed, body |-> body, quiet |-> TRUE,
   authorization |-> Authorization]

\* An edit committed now is seen by every request still awaiting a response.
Disturb(reqs, secs) ==
  IF secs = sections
    THEN reqs
    ELSE [i \in 1..Len(reqs) |-> [reqs[i] EXCEPT !.quiet = FALSE]]

RemoveAt(s, i) == [j \in 1..(Len(s) - 1) |-> IF j < i THEN s[j] ELSE s[j + 1]]

(* ----------------------------- construction ---------------------------- *)

\* No call of a library function is being followed.
NoCall == [fn |-> "none"]

\* The editor and the page once the constructor has returned.
Constructed ==
  /\ meta \in (IF rev = "late" THEN BOOLEAN ELSE {TRUE})
  /\ saveUrl \in (IF rev = "root" THEN BOOLEAN ELSE {TRUE})
  /\ pc = "constructed"
  /\ text = [n \in Nodes |-> 0]
  /\ classes = [n \in Nodes |-> {}]
  /\ attrs = [n \in Nodes |-> {}]
  /\ toolbars = 0
  /\ prompt = FALSE
  /\ sections = <<>>
  /\ inflight = <<>>
  /\ cursor = ""
  /\ loading = FALSE
  /\ saveDisabled = FALSE
  /\ publishDisabled = FALSE
  /\ abortListeners = 0
  /\ inputListeners = [n \in Nodes |-> 0]
  /\ fcall = NoCall
  /\ last = Note("new")

Init ==
  /\ rev \in Revs
  /\ layout \in (IF rev = "root" THEN RootLayouts ELSE Layouts)
  /\ Constructed

(* --------------------------------- run --------------------------------- *)

Run ==
  /\ pc = "constructed"
  /\ LET reg == IF rev = "root"
                  THEN [sections |-> RegisterAllRoot(EditableElements, sections),
                        classes  |-> classes,
                        attrs    |-> attrs]
                  ELSE RegisterAll(IF rev = "late"
                                     THEN Reverse(EditableElements)
                                     ELSE EditableElements,
                                   sections, classes, attrs)
     IN  /\ sections' = reg.sections
         /\ classes' = reg.classes
         /\ attrs' = reg.attrs
         /\ saveDisabled' = saveStatus(reg.sections)
         /\ publishDisabled' = publishStatus(reg.sections, publishDisabled)
  /\ pc' = "running"
  /\ last' = Note("run")
  /\ UNCHANGED <<rev, layout, meta, saveUrl, text, toolbars, prompt, inflight, cursor,
                 loading, abortListeners,
                 inputListeners, fcall>>

(* ----------------------- edit session (early, late) -------------------- *)

\* Click listeners run() attached to node n: one per section it backs.
ClickListeners(n) ==
  Cardinality({i \in 1..Len(sections) : sections[i].element = n})

RECURSIVE Sum(_)
Sum(s) == IF s = <<>> THEN 0 ELSE Head(s) + Sum(Tail(s))

\* The click listeners a click on t reaches, from t up to body.
ClicksReached(t) == Sum([k \in 1..Len(Chain(t)) |-> ClickListeners(Chain(t)[k])])

\* The first line of _addEdit: getTopParent(e.target, this.tags) || e.target.
addEditElement(t) ==
  LET top == IF rev = "late" THEN getTopParent(t) ELSE getTopParentNearest(t)
  IN  IF top = Body THEN t ELSE top

\* _addEdit, run once for every click listener on the path from the target t
\* up to body; every run resolves the same element, and every run of
\* _addLocalToolbar leaves one more input listener on it.
AddEdit(t, ctrl) ==
  /\ pc = "running"
  /\ rev \in {"early", "late"}
  /\ ClicksReached(t) > 0
  /\ LET el == addEditElement(t)
     IN  /\ inputListeners[el] + ClicksReached(t) <= MaxListeners
         /\ attrs' = setAttribute(setAttribute(attrs, el, "contenteditable"), el, "class")
         /\ classes' = classListAdd(classes, el, "outline")
         /\ pc' = IF ctrl /\ Tag(el) = "a" THEN "unloaded" ELSE pc
         /\ inputListeners' = [inputListeners EXCEPT ![el] = @ + ClicksReached(t)]
  /\ toolbars' = IF toolbars = 0 THEN 1 ELSE toolbars
  /\ last' = Note("click")
  /\ UNCHANGED <<rev, layout, meta, saveUrl, text, prompt, sections, inflight, cursor,
                 loading, saveDisabled, publishDisabled, abortListeners, fcall>>

\* document.querySelector(".cms-editable[contenteditable=true]"); Body
\* stands for null.
editableEl ==
  LET hits == SelectSeq(DocOrder,
                LAMBDA n : "cms-editable" \in classes[n] /\ IsEditing(n))
  IN  IF hits = <<>> THEN Body ELSE hits[1]

setEditsStale(element, secs, cls, atr) == secs

\* _setEdits(element), on the DOM (cls, atr) reached when it is called.
setEdits(element, secs, cls, atr) ==
  [secs EXCEPT ![findSection(element, secs)].edited_text =
                 innerHTML(element, text, cls, atr)]

\* _removeEdit for a mousedown on t: a node, Body (any other element without
\* a special class), ToolbarT or BtnT.
RemoveEdit(t) ==
  /\ pc = "running"
  /\ rev \in {"early", "late"}
  /\ t = ToolbarT => toolbars > 0
  /\ LET el == editableEl
     IN  IF \/ t = ToolbarT
            \/ t = BtnT
            \/ (el # Body /\ t = el)
            \/ prompt
           THEN /\ UNCHANGED <<classes, attrs, toolbars, sections, inflight,
                               saveDisabled>>
                /\ last' = Note("mousedown")
           ELSE /\ toolbars' = IF toolbars > 0 THEN toolbars - 1 ELSE toolbars
                /\ IF el = Body
                     THEN /\ UNCHANGED <<classes, attrs, sections, inflight,
                                         saveDisabled>>
                          /\ last' = [Note("mousedown") EXCEPT !.exit = TRUE]
                     ELSE /\ attrs' = removeAttribute(attrs, el, "contenteditable")
                          /\ classes' = classListRemove(classes, el, "outline")
                          /\ IF findSection(el, sections) = 0
                               THEN /\ UNCHANGED <<sections, inflight, saveDisabled>>
                                    /\ last' = [Note("mousedown") EXCEPT !.threw = TRUE,
                                                                          !.exit = TRUE]
                               ELSE /\ sections' = setEdits(el, sections, classes', attrs')
                                    /\ inflight' = Disturb(inflight, sections')
                                    /\ saveDisabled' = saveStatus(sections')
                                    /\ last' = [Note("mousedown") EXCEPT !.exit = TRUE]
  /\ UNCHANGED <<rev, layout, meta, saveUrl, pc, text, prompt, cursor, loading,
                 publishDisabled, abortListeners,
                 inputListeners, fcall>>

\* Typing, or an execCommand, changes the text of a node in an editing host.
Input(n) ==
  /\ pc = "running"
  /\ ~prompt
  /\ InEditingHost(n)
  /\ PageText[layout][n]
  /\ text[n] < MaxText
  /\ text' = [text EXCEPT ![n] = @ + 1]
  /\ last' = Note("input")
  /\ UNCHANGED <<rev, layout, meta, saveUrl, pc, classes, attrs, toolbars, prompt,
                 sections, inflight, cursor, loading, saveDisabled,
                 publishDisabled, abortListeners,
                 inputListeners, fcall>>

\* _insertLink up to promptUser: the prompt is shown.  It is reached from the
\* link button of the contextual toolbar or from the link shortcut.
OpenPrompt ==
  /\ pc = "running"
  /\ ~prompt
  /\ rev = "root" \/ toolbars > 0 \/ \E n \in Nodes : IsEditing(n)
  /\ prompt' = TRUE
  /\ last' = Note("prompt")
  /\ UNCHANGED <<rev, layout, meta, saveUrl, pc, text, classes, attrs, toolbars,
                 sections, inflight, cursor, loading, saveDisabled,
                 publishDisabled, abortListeners,
                 inputListeners, fcall>>

\* submitPrompt or cancelPrompt: hidePrompt().
ClosePrompt ==
  /\ pc = "running"
  /\ prompt
  /\ prompt' = FALSE
  /\ last' = Note("prompt")
  /\ UNCHANGED <<rev, layout, meta, saveUrl, pc, text, classes, attrs, toolbars,
                 sections, inflight, cursor, loading, saveDisabled,
                 publishDisabled, abortListeners,
                 inputListeners, fcall>>

(* -------------------------- sync (early, late) ------------------------- *)

\* The requests that may be awaiting a response when src calls save().
InFlightCap(src) == IF src = "timer" THEN MaxOverlap ELSE MaxInFlight

SaveSources == {"button", "shortcut", "timer", "meta"}

\* Who can call save(): the shortcut from construction on, the save button
\* once run() rendered it, the timer and the meta form in the late revision.
CanCall(src) ==
  CASE src = "shortcut" -> rev # "root" \/ pc = "running"
    [] src = "button"   -> pc = "running"
    [] OTHER            -> rev = "late" /\ pc = "running"

\* JSON.stringify of the sections idx refers to.
Body_(idx, secs) ==
  [k \in 1..Len(idx) |->
     [path          |-> secs[idx[k]].path,
      original_text |-> secs[idx[k]].original_text,
      edited_text   |-> secs[idx[k]].edited_text,
      saved_text    |-> secs[idx[k]].saved_text]]

\* save(), called by src; note is what is known of the call so far.
SaveBy(src, note) ==
  /\ pc \in {"constructed", "running"}
  /\ rev \in {"early", "late"}
  /\ CanCall(src)
  /\ IF ~changedSinceSave(sections)
       THEN /\ UNCHANGED <<inflight, cursor>>
            /\ last' = note
       ELSE IF rev = "late" /\ ~meta
         THEN \* getMetaInfo() reads an attribute of a tag the page lacks
              /\ UNCHANGED <<inflight, cursor>>
              /\ last' = [note EXCEPT !.threw = TRUE]
         ELSE /\ Len(inflight) < InFlightCap(src)
              /\ inflight' = Append(inflight,
                               Request("save", findChangedSections(sections),
                                       Body_(findChangedSections(sections), sections)))
              /\ cursor' = "wait"
              /\ last' = [note EXCEPT !.sent = TRUE]
  /\ UNCHANGED <<rev, layout, meta, saveUrl, pc, text, classes, attrs, toolbars, prompt,
                 sections, loading, saveDisabled, publishDisabled,
                 abortListeners,
                 inputListeners, fcall>>

\* save() called from the save button, the timer or the meta form, or from
\* the save shortcut with the key event left out.
Save(src) == SaveBy(src, [Note("save") EXCEPT !.src = src])

\* publish()
Publish ==
  /\ pc = "running"
  /\ rev \in {"early", "late"}
  /\ IF ~changedSincePublish(sections)
       THEN /\ UNCHANGED <<inflight, cursor>>
            /\ last' = Note("publish")
       ELSE /\ Len(inflight) < MaxInFlight
            /\ inflight' = Append(inflight,
                             Request("publish", <<>>,
                                     Body_([i \in 1..Len(sections) |-> i], sections)))
            /\ cursor' = "wait"
            /\ last' = [Note("publish") EXCEPT !.sent = TRUE]
  /\ UNCHANGED <<rev, layout, meta, saveUrl, pc, text, classes, attrs, toolbars, prompt,
                 sections, loading, saveDisabled, publishDisabled,
                 abortListeners,
                 inputListeners, fcall>>

\* _setSaved(changedSections): every section takes the edited_text of the
\* last changed section that has its element.
setSaved(changed, secs) ==
  [i \in 1..Len(secs) |->
     LET hits == SelectSeq(changed,
                   LAMBDA c : secs[c].element = secs[i].element)
     IN  IF hits = <<>>
           THEN secs[i]
           ELSE [secs[i] EXCEPT !.saved_text = secs[hits[Len(hits)]].edited_text]]

setPublishedSavedOnly(secs) ==
  [i \in 1..Len(secs) |->
     IF secs[i].edited_text = secs[i].saved_text
       THEN [secs[i] EXCEPT !.original_text = secs[i].saved_text]
       ELSE secs[i]]

\* _setPublished()
setPublished(secs) ==
  [i \in 1..Len(secs) |-> [secs[i] EXCEPT !.original_text = secs[i].saved_text]]

Outcomes == {"ok", "http", "net"}

acknowledgeAnyResponse(r, outcome, secs) ==
  IF r.kind = "save" THEN setSaved(r.changed, secs) ELSE setPublished(secs)

\* The registry save() or publish() leaves behind once the request r is
\* answered: only a 2xx response is acknowledged.
acknowledge(r, outcome, secs) ==
  IF outcome # "ok"
    THEN secs
    ELSE IF r.kind = "save" THEN setSaved(r.changed, secs) ELSE setPublished(secs)

\* The rest of save() or publish() once the request i is answered: ok is a
\* 2xx response, http any other response, net a rejected fetch.
Respond(i, outcome) ==
  /\ pc \in {"constructed", "running"}
  /\ rev \in {"early", "late"}
  /\ i \in 1..Len(inflight)
  /\ LET r    == inflight[i]
         note == [Note("response") EXCEPT !.kind = r.kind, !.outcome = outcome,
                                          !.quiet = r.quiet]
     IN  /\ sections' = acknowledge(r, outcome, sections)
         /\ CASE outcome = "net" ->
                \* the awaited fetch rejects: nothing after it runs
                /\ UNCHANGED <<cursor, saveDisabled, publishDisabled>>
                /\ last' = [note EXCEPT !.threw = TRUE]
           [] outcome = "http" ->
                /\ UNCHANGED <<saveDisabled, publishDisabled>>
                /\ cursor' = "auto"
                /\ last' = [note EXCEPT !.reported = TRUE]
           [] outcome = "ok" ->
                /\ IF pc = "constructed"
                     THEN \* the buttons the status setters look up do not exist
                          /\ UNCHANGED <<cursor, saveDisabled, publishDisabled>>
                          /\ last' = [note EXCEPT !.threw = TRUE]
                     ELSE /\ saveDisabled' = IF r.kind = "save"
                                               THEN saveStatus(sections')
                                               ELSE saveDisabled
                          /\ publishDisabled' = publishStatus(sections', publishDisabled)
                          /\ cursor' = "auto"
                          /\ last' = note
  /\ inflight' = Disturb(RemoveAt(inflight, i), sections')
  /\ UNCHANGED <<rev, layout, meta, saveUrl, pc, text, classes, attrs, toolbars, prompt,
                 loading, abortListeners,
                 inputListeners, fcall>>

(* ------------------------- edit session (root) ------------------------- *)

\* Iteration cap of the climb in _edit.
EditCap == 40

\* Elements carrying a click and a keydown listener of run() (root) on the
\* path from t up to body.
ListenersAbove(t) ==
  SelectSeq(Chain(t), LAMBDA a : Tag(a) \in Tags)

RECURSIVE editTarget(_, _, _)
\* The while loop of _edit: the element made editable, from el after i
\* iterations; elements holds the editable tag names found in the path.
editTarget(el, i, elements) ==
  IF Tag(el) \notin childTags \/ i >= EditCap
    THEN el
    ELSE editTarget(IF Tag(Parent(el)) \in elements THEN Parent(el) ELSE el,
                    i + 1, elements)

\* _edit, run once for every click listener the event reaches: a click on an
\* a element stops at the first one.
Edit(t) ==
  /\ pc = "running"
  /\ rev = "root"
  /\ ListenersAbove(t) # <<>>
  /\ LET path     == getSelectorPathOld(t, classes, "cms-input-field")
         elements == {path[k].tag : k \in 1..Len(path)} \cap Tags
         el       == editTarget(t, 0, elements)
         runs     == IF Tag(t) = "a" THEN 1 ELSE Len(ListenersAbove(t))
     IN  /\ abortListeners + runs <= MaxAbort
         /\ IF elements = {}
              THEN UNCHANGED <<attrs, classes, abortListeners,
                 inputListeners, fcall>>
              ELSE /\ attrs' = [attrs EXCEPT ![el] =
                                  @ \cup {"contenteditable", "spellcheck", "class"}]
                   /\ classes' = classListAdd(classes, el, "cms-input-field")
                   /\ abortListeners' = abortListeners + runs
  /\ last' = Note("click")
  /\ UNCHANGED <<rev, layout, meta, saveUrl, pc, text, toolbars, prompt, sections,
                 inflight, cursor, loading, saveDisabled, publishDisabled,
                 inputListeners, fcall>>

\* A pointer target that is the prompt container or the prompt input (root).
PromptT == -3

\* shouldAbort(target)
shouldAbort(target) ==
  CASE target \in Nodes -> "cms-input-field" \notin classes[target]
    [] target = BtnT    -> FALSE
    [] target = PromptT -> FALSE
    [] OTHER            -> TRUE

\* document.querySelector(".cms-input-field"); Body stands for null.
inputField ==
  LET hits == SelectSeq(DocOrder, LAMBDA n : "cms-input-field" \in classes[n])
  IN  IF hits = <<>> THEN Body ELSE hits[1]

\* _removeInput(): the attributes left on every .cms-input-field element.
removeInputAttrs ==
  [n \in Nodes |-> IF "cms-input-field" \in classes[n]
                     THEN attrs[n] \ {"contenteditable"} ELSE attrs[n]]

removeInputClasses == [n \in Nodes |-> classes[n] \ {"cms-input-field"}]

\* _confirmChange(), run `runs` times in a row.  The first run commits the
\* first input field and closes every input field; it throws, before closing
\* anything, when there is no input field or no section with the field's
\* path.  Every later run finds no input field and throws.
ConfirmChange(runs, op) ==
  LET target == inputField
      path   == getSelectorPathOld(target, classes, "cms-input-field")
      sec    == findSectionByPath(path, sections)
  IN  IF target = Body \/ sec = 0
        THEN /\ UNCHANGED <<attrs, classes, sections, inflight, saveDisabled>>
             /\ last' = [Note(op) EXCEPT !.threw = TRUE, !.exit = TRUE]
        ELSE /\ sections' = [sections EXCEPT ![sec].edited_text =
                               innerHTML(querySelector(path), text, classes, attrs)]
             /\ inflight' = Disturb(inflight, sections')
             /\ saveDisabled' = saveStatus(sections')
             /\ attrs' = removeInputAttrs
             /\ classes' = removeInputClasses
             /\ last' = [Note(op) EXCEPT !.threw = (runs > 1), !.exit = TRUE]

\* The pending _handleAbort listeners, all run by one mousedown on t.
HandleAbort(t, ctrl) ==
  /\ pc = "running"
  /\ rev = "root"
  /\ t = PromptT => prompt
  /\ LET target == IF t \in Nodes /\ Tag(t) = "li" THEN Parent(t) ELSE t
     IN  IF abortListeners > 0 /\ shouldAbort(target) /\ ~ctrl
           THEN ConfirmChange(abortListeners, "mousedown")
           ELSE /\ UNCHANGED <<attrs, classes, sections, inflight, saveDisabled>>
                /\ last' = Note("mousedown")
  /\ abortListeners' = 0
  /\ UNCHANGED <<rev, layout, meta, saveUrl, pc, text, toolbars, prompt, cursor,
                 loading, publishDisabled, inputListeners, fcall>>

Keys == {"Escape", "Enter"}

\* _onKeydown for a key pressed in the editing element t, run once for every
\* keydown listener on the path from t up to body.
OnKeydown(t, key) ==
  /\ pc = "running"
  /\ rev = "root"
  /\ IsEditing(t)
  /\ ListenersAbove(t) # <<>>
  /\ IF key = "Escape"
       THEN /\ attrs' = removeInputAttrs
            /\ classes' = removeInputClasses
            /\ UNCHANGED <<sections, inflight, saveDisabled>>
            /\ last' = [Note("keydown") EXCEPT !.exit = TRUE]
       ELSE ConfirmChange(Len(ListenersAbove(t)), "keydown")
  /\ UNCHANGED <<rev, layout, meta, saveUrl, pc, text, toolbars, prompt, cursor,
                 loading, publishDisabled, abortListeners,
                 inputListeners, fcall>>

(* ------------------------------ sync (root) ---------------------------- *)

\* The loop of save() that reads every section's element back into its
\* edited_text: the element is the first match of the section's path, the
\* section the last one registered with that path.
RECURSIVE flush(_, _)
flush(k, secs) ==
  IF k > Len(secs)
    THEN secs
    ELSE flush(k + 1,
               [secs EXCEPT ![findSectionByPath(secs[k].path, secs)].edited_text =
                  innerHTML(querySelector(secs[k].path), text, classes, attrs)])

\* save() of src/index.js, called by src; note is what is known of the call
\* so far.
SaveRootBy(src, note) ==
  /\ pc = "running"
  /\ rev = "root"
  /\ src \in {"button", "shortcut"}
  /\ IF ~changedSinceSave(sections)
       THEN /\ UNCHANGED <<sections, inflight, loading>>
            /\ last' = note
       ELSE LET flushed == flush(1, sections)
                changed == findChangedSections(flushed)
            IN  /\ sections' = flushed
                /\ loading' = TRUE
                /\ IF ~saveUrl
                     THEN \* emit("save", this.sections)
                          /\ UNCHANGED inflight
                          /\ last' = note
                     ELSE /\ Len(inflight) < MaxInFlight
                          /\ inflight' = Append(Disturb(inflight, flushed),
                                           Request("save", changed, Body_(changed, flushed)))
                          /\ last' = [note EXCEPT !.sent = TRUE]
  /\ UNCHANGED <<rev, layout, meta, saveUrl, pc, text, classes, attrs, toolbars,
                 prompt, cursor, saveDisabled, publishDisabled, abortListeners,
                 inputListeners, fcall>>

SaveRoot(src) == SaveRootBy(src, [Note("save") EXCEPT !.src = src])

\* publish() of src/index.js
PublishRoot ==
  /\ pc = "running"
  /\ rev = "root"
  /\ IF ~changedSincePublish(sections)
       THEN /\ UNCHANGED <<inflight, loading>>
            /\ last' = Note("publish")
       ELSE LET changed == SelectSeq([i \in 1..Len(sections) |-> i],
                             LAMBDA i : sections[i].original_text # sections[i].edited_text)
            IN  /\ loading' = TRUE
                /\ IF ~saveUrl
                     THEN /\ UNCHANGED inflight
                          /\ last' = Note("publish")
                     ELSE /\ Len(inflight) < MaxInFlight
                          /\ inflight' = Append(inflight,
                                           Request("publish", changed, Body_(changed, sections)))
                          /\ last' = [Note("publish") EXCEPT !.sent = TRUE]
  /\ UNCHANGED <<rev, layout, meta, saveUrl, pc, text, classes, attrs, toolbars,
                 prompt, sections, cursor, saveDisabled, publishDisabled,
                 abortListeners,
                 inputListeners, fcall>>

RECURSIVE setSavedChanges(_, _, _)
\* _setSavedChanges(result.sections), from entry k on: the server answers
\* with the path and, as content, the edited_text of every section sent.
setSavedChanges(k, result, secs) ==
  IF k > Len(result)
    THEN secs
    ELSE setSavedChanges(k + 1, result,
           [secs EXCEPT ![findSectionByPath(result[k].path, secs)] =
              [@ EXCEPT !.saved_text = result[k].edited_text,
                        !.edited_text = result[k].edited_text]])

RECURSIVE setPublishedChanges(_, _, _)
\* _setPublishedChanges(result.sections), from entry k on.
setPublishedChanges(k, result, secs) ==
  IF k > Len(result)
    THEN secs
    ELSE setPublishedChanges(k + 1, result,
           [secs EXCEPT ![findSectionByPath(result[k].path, secs)] =
              [@ EXCEPT !.saved_text = result[k].edited_text,
                        !.original_text = result[k].edited_text]])

\* The rest of save() or publish() of src/index.js once request i is
\* answered.
RespondRoot(i, outcome) ==
  /\ pc = "running"
  /\ rev = "root"
  /\ i \in 1..Len(inflight)
  /\ LET r    == inflight[i]
         rest == RemoveAt(inflight, i)
         note == [Note("response") EXCEPT !.kind = r.kind, !.outcome = outcome,
                                          !.quiet = r.quiet]
     IN  CASE outcome = "net" ->
                \* .catch reports the error; then response is undefined
                /\ UNCHANGED <<sections, loading, saveDisabled, publishDisabled>>
                /\ inflight' = rest
                /\ last' = [note EXCEPT !.reported = TRUE, !.threw = TRUE]
           [] outcome = "http" ->
                /\ UNCHANGED <<sections, saveDisabled, publishDisabled>>
                /\ inflight' = rest
                /\ loading' = FALSE
                /\ last' = [note EXCEPT !.reported = TRUE]
           [] outcome = "ok" ->
                /\ loading' = FALSE
                /\ sections' = IF r.kind = "save"
                                 THEN setSavedChanges(1, r.body, sections)
                                 ELSE setSavedChanges(1, r.body,
                                        setPublishedChanges(1, r.body, sections))
                /\ inflight' = Disturb(rest, sections')
                /\ saveDisabled' = saveStatus(sections')
                /\ publishDisabled' = publishStatus(sections', publishDisabled)
                /\ last' = note
  /\ UNCHANGED <<rev, layout, meta, saveUrl, pc, text, classes, attrs, toolbars,
                 prompt, cursor, abortListeners,
                 inputListeners, fcall>>

(* ------------------------------ shortcuts ------------------------------ *)

\* this.shortcuts: the save shortcut is global, the others (bold stands for
\* the four that call execCommand) carry no global field.  The combos come
\* from the locale table.
shortcuts ==
  <<[name |-> "save", combo |-> <<"ctrl", "s">>, global |-> TRUE],
    [name |-> "bold", combo |-> <<"ctrl", "b">>, global |-> FALSE],
    [name |-> "link", combo |-> <<"ctrl", "k">>, global |-> FALSE]>>

\* The key events, e.key as the keyboard reports it: ctrl with s, B or k,
\* pressed or held; s alone; ctrl and shift with B.
KeyEvents ==
  [ctrlKey : {TRUE}, shiftKey : {FALSE}, altKey : {FALSE},
   key : {"s", "B", "k"}, repeat : BOOLEAN]
  \cup
  [ctrlKey : {FALSE}, shiftKey : {FALSE}, altKey : {FALSE},
   key : {"s"}, repeat : {FALSE}]
  \cup
  [ctrlKey : {TRUE}, shiftKey : {TRUE}, altKey : {FALSE},
   key : {"B"}, repeat : {FALSE}]

toLowerCase(key) == IF key = "B" THEN "b" ELSE key

\* The combo _handleShortcuts builds from the event.
Combo(e) ==
  (IF e.ctrlKey THEN <<"ctrl">> ELSE <<>>) \o
  (IF e.shiftKey THEN <<"shift">> ELSE <<>>) \o
  (IF e.altKey THEN <<"alt">> ELSE <<>>) \o
  <<toLowerCase(e.key)>>

\* getShortcut: index of the first shortcut with this combo, 0 for false.
\* Two combos have equal joins exactly when they are equal, no name holding
\* a space.
getShortcut(list, combo) ==
  LET hits == SelectSeq([i \in 1..Len(list) |-> i], LAMBDA i : list[i].combo = combo)
  IN  IF hits = <<>> THEN 0 ELSE hits[1]

\* e.target.classList.contains(marker)
isInputContext(t) ==
  t \in Nodes /\ (IF rev = "root" THEN "cms-input-field" ELSE "cms-editable") \in classes[t]

\* The elements a key event can have as target, the ones that take the
\* focus: body, an editing host, a link outside every editing host.
Focusable(t) ==
  \/ t = Body
  \/ t \in Nodes /\ IsEditing(t)
  \/ t \in Nodes /\ Tag(t) = "a" /\ ~InEditingHost(t)

\* The variables other than last.
rest ==
  <<rev, layout, meta, saveUrl, pc, text, classes, attrs, toolbars, prompt,
    sections, inflight, cursor, loading, saveDisabled, publishDisabled,
    abortListeners, inputListeners, fcall>>

\* The selection lies in sel, inside the editing host t that has the focus.
SelectionIn(t, sel) ==
  /\ sel \in Nodes
  /\ t \in Nodes
  /\ IsEditing(t)
  /\ t \in Range(Chain(sel))

onkeydownHeld(t, e) ==
  LET k     == getShortcut(shortcuts, Combo(e))
      fires == k # 0 /\ (isInputContext(t) \/ shortcuts[k].global)
  IN  [shortcut  |-> k,
       prevented |-> fires,
       stopped   |-> fires,
       invoked   |-> IF fires THEN 1 ELSE 0]

\* document.onkeydown for a key event e with target t, as far as the event
\* goes: the shortcut found (0 for none), whether preventDefault and
\* stopImmediatePropagation were called, and how often the shortcut's action
\* was called.
onkeydown(t, e) ==
  LET k     == getShortcut(shortcuts, Combo(e))
      fires == k # 0 /\ (isInputContext(t) \/ shortcuts[k].global)
  IN  [shortcut  |-> k,
       prevented |-> fires,
       stopped   |-> fires,
       invoked   |-> IF fires /\ ~e.repeat THEN 1 ELSE 0]

\* The keydown handler of the document for a key event e with target t; sel
\* is the node holding the selection an invoked action works on, Body when
\* there is none.
HandleShortcuts(t, e, sel) ==
  /\ pc \in {"constructed", "running"}
  /\ CanCall("shortcut")
  /\ Focusable(t)
  /\ LET k    == onkeydown(t, e).shortcut
         note == [Note("shortcut") EXCEPT
                    !.prevented = onkeydown(t, e).prevented,
                    !.stopped = onkeydown(t, e).stopped,
                    !.invoked = onkeydown(t, e).invoked]
     IN  IF onkeydown(t, e).invoked = 0
           THEN /\ sel = Body
                /\ last' = note
                /\ UNCHANGED rest
           ELSE CASE shortcuts[k].name = "save" ->
                       LET call == [note EXCEPT !.op = "save", !.src = "shortcut"]
                       IN  /\ sel = Body
                           /\ IF rev = "root"
                                 THEN SaveRootBy("shortcut", call)
                                 ELSE SaveBy("shortcut", call)
                  [] shortcuts[k].name = "bold" ->
                       \* execCommand rewrites the selected content
                       /\ sel # Body => SelectionIn(t, sel)
                       /\ last' = note
                       /\ IF sel # Body /\ ~prompt /\ PageText[layout][sel]
                             THEN /\ text[sel] < MaxText
                                  /\ text' = [text EXCEPT ![sel] = @ + 1]
                             ELSE UNCHANGED text
                       /\ UNCHANGED <<rev, layout, meta, saveUrl, pc, classes, attrs,
                                      toolbars, prompt, sections, inflight, cursor,
                                      loading, saveDisabled, publishDisabled,
                                      abortListeners, inputListeners, fcall>>
                  [] shortcuts[k].name = "link" ->
                       \* _insertLink: without a selection it returns, with
                       \* one it shows the prompt
                       /\ sel # Body => SelectionIn(t, sel)
                       /\ last' = note
                       /\ prompt' = (prompt \/ sel # Body)
                       /\ UNCHANGED <<rev, layout, meta, saveUrl, pc, text, classes,
                                      attrs, toolbars, sections, inflight, cursor,
                                      loading, saveDisabled, publishDisabled,
                                      abortListeners, inputListeners, fcall>>

(* --------------------------- specifications --------------------------- *)

\* Targets of a mousedown.
Targets == Nodes \cup {Body, ToolbarT, BtnT}

RootTargets == Nodes \cup {Body, BtnT, PromptT}

\* The handlers of src/src/index.js (both revisions).
NextSrc ==
  \/ Run
  \/ \E t \in Nodes, ctrl \in BOOLEAN : AddEdit(t, ctrl)
  \/ \E t \in Targets : RemoveEdit(t)
  \/ \E n \in Nodes : Input(n)
  \/ OpenPrompt
  \/ ClosePrompt
  \/ \E src \in SaveSources : Save(src)
  \/ Publish
  \/ \E i \in 1..MaxOverlap, o \in Outcomes : Respond(i, o)

\* The handlers of src/index.js.
NextRoot ==
  \/ Run
  \/ \E t \in Nodes : Edit(t)
  \/ \E t \in RootTargets, ctrl \in BOOLEAN : HandleAbort(t, ctrl)
  \/ \E t \in Nodes, key \in Keys : OnKeydown(t, key)
  \/ \E n \in Nodes : Input(n)
  \/ OpenPrompt
  \/ ClosePrompt
  \/ \E src \in SaveSources : SaveRoot(src)
  \/ PublishRoot
  \/ \E i \in 1..MaxInFlight, o \in Outcomes : RespondRoot(i, o)

Next == NextSrc \/ NextRoot

KeyTargets == Nodes \cup {Body}

\* The editor driven from the keyboard: clicks enter and leave regions, the
\* shortcuts save, rewrite the selection and open the prompt.
NextKeysSrc ==
  \/ Run
  \/ \E t \in Nodes, ctrl \in BOOLEAN : AddEdit(t, ctrl)
  \/ \E t \in Targets : RemoveEdit(t)
  \/ ClosePrompt
  \/ \E i \in 1..MaxOverlap, o \in Outcomes : Respond(i, o)
  \/ \E t \in KeyTargets, e \in KeyEvents, sel \in KeyTargets :
       HandleShortcuts(t, e, sel)

NextKeysRoot ==
  \/ Run
  \/ \E t \in Nodes : Edit(t)
  \/ \E t \in RootTargets, ctrl \in BOOLEAN : HandleAbort(t, ctrl)
  \/ \E t \in Nodes, key \in Keys : OnKeydown(t, key)
  \/ ClosePrompt
  \/ \E i \in 1..MaxInFlight, o \in Outcomes : RespondRoot(i, o)
  \/ \E t \in KeyTargets, e \in KeyEvents, sel \in KeyTargets :
       HandleShortcuts(t, e, sel)

\* Every revision.
Spec == Init /\ [][Next]_vars

\* One revision each.
InitEarly == Init /\ rev = "early"

InitLate == Init /\ rev = "late"

InitRoot == Init /\ rev = "root"

\* The late revision on the page of PathLayouts.
InitPaths == rev = "late" /\ layout \in PathLayouts /\ Constructed

SpecEarly == InitEarly /\ [][NextSrc]_vars

SpecLate == InitLate /\ [][NextSrc]_vars

SpecRoot == InitRoot /\ [][NextRoot]_vars

SpecPaths == InitPaths /\ [][NextSrc]_vars

SpecKeysEarly == InitEarly /\ [][NextKeysSrc]_vars

SpecKeysLate == InitLate /\ [][NextKeysSrc]_vars

SpecKeysRoot == InitRoot /\ [][NextKeysRoot]_vars

(* ------------------- getSelectorPath on any parent chain --------------- *)

\* The copies of the library: the three revisions, and the copy of the class
\* in src/unnamed/part_000.
Copies == Revs \cup {"first"}

\* Longest parent chain drawn.
MaxChain == 3

\* localName of the nodes of a chain; "" is the undefined localName of the
\* document node.
ChainNames == {"p", "body", "html", ""}

\* A parent chain: names[1] is el and names[k + 1] the parentNode of
\* names[k]; the parentNode of the last node is null or, in a cyclic chain,
\* el again.  No node of a chain has an id.
Chains ==
  [names : UNION {[1..n -> ChainNames] : n \in 1..MaxChain}, cyclic : BOOLEAN]

\* node.parentNode; 0 stands for null.
parentNode(c, k) ==
  IF k < Len(c.names) THEN k + 1 ELSE IF c.cyclic THEN 1 ELSE 0

Returned(o, n) == [outcome |-> o, loops |-> n]

RECURSIVE WhileOld(_, _, _)
\* The while loop of getSelectorPath with its safety counter i, entered with
\* parent.
WhileOld(c, parent, i) ==
  IF parent = 0
    THEN Returned("TypeError", i)        \* null.localName
    ELSE IF c.names[parent] = "body"
      THEN Returned("path", i)
      ELSE IF i > ClimbCap
        THEN Returned("path", i + 1)     \* break
        ELSE WhileOld(c, parentNode(c, parent), i + 1)

\* getSelectorPath of src/src/lib/util.js and of src/index.js
getSelectorPathOfOld(c) ==
  IF parentNode(c, 1) = 0
    THEN Returned("TypeError", 0)        \* el.parentNode.children
    ELSE IF c.names[1] = ""
      THEN Returned("TypeError", 0)      \* getSelector(el).trim()
      ELSE IF c.names[1] = "html"
        THEN Returned("undefined", 0)
        ELSE WhileOld(c, parentNode(c, 1), 0)

\* getSelectorPath of src/unnamed/part_000
getSelectorPathOfFirst(c) ==
  IF c.names[1] = "html" \/ parentNode(c, 1) = 0
    THEN Returned("undefined", 0)
    ELSE IF c.names[1] = "" /\ c.names[parentNode(c, 1)] = "body"
      THEN Returned("TypeError", 0)      \* reverseStr(undefined, " ")
      ELSE WhileOld(c, parentNode(c, 1), 0)

\* getSelector of src/unnamed/part_001 raises on a node without classList
\* (the document) and, in findSiblings, on a node without parent.
getSelectorRaises(c, k) == c.names[k] = "" \/ parentNode(c, k) = 0

RECURSIVE WhileLate(_, _, _)
\* The while loop of getSelectorPath of src/unnamed/part_001, which has no
\* counter: once every node of a cyclic chain has been passed the walk
\* repeats itself.
WhileLate(c, parent, n) ==
  IF parent = 0
    THEN Returned("TypeError", n)
    ELSE IF c.names[parent] = "body"
      THEN Returned("path", n)
      ELSE IF getSelectorRaises(c, parent)
        THEN Returned("TypeError", n)
        ELSE IF n > Len(c.names)
          THEN Returned("hangs", n)
          ELSE WhileLate(c, parentNode(c, parent), n + 1)

\* getSelectorPath of src/unnamed/part_001
getSelectorPathOfLate(c) ==
  IF c.names[1] = "html"
    THEN Returned("undefined", 0)
    ELSE IF getSelectorRaises(c, 1)
      THEN Returned("TypeError", 0)
      ELSE WhileLate(c, parentNode(c, 1), 0)

getSelectorPathOf(c) ==
  CASE rev = "late"  -> getSelectorPathOfLate(c)
    [] rev = "first" -> getSelectorPathOfFirst(c)
    [] OTHER         -> getSelectorPathOfOld(c)

\* A call of getSelectorPath that has not run yet.
PathCalls == [fn : {"getSelectorPath"}, arg : Chains, done : {FALSE}]

\* getSelectorPath(el) runs.
GetSelectorPath ==
  /\ fcall.fn = "getSelectorPath"
  /\ ~fcall.done
  /\ fcall' = [fn   |-> fcall.fn,
               arg  |-> fcall.arg,
               done |-> TRUE,
               out  |-> getSelectorPathOf(fcall.arg)]
  /\ UNCHANGED <<rev, layout, meta, saveUrl, pc, text, classes, attrs, toolbars, prompt,
                 sections, inflight, cursor, loading, saveDisabled, publishDisabled,
                 abortListeners, inputListeners, last>>

(* ----------------------------- new CMS(...) ---------------------------- *)

\* Values handed over as the tags option, written as JavaScript literals;
\* "undefined" is an option left out.
TagValues ==
  {"undefined", "null", "false", "0", "''", "[]", "['span']", "'span'", "{}"}

IsArray(v) == v \in {"[]", "['span']"}

\* The value counts as true in a condition.
Truthy(v) == v \in {"[]", "['span']", "'span'", "{}", "en", "sv", "xx", "constructor"}

\* The elements of an array value.
Elements(v) == IF v = "['span']" THEN {"span"} ELSE {}

\* Values handed over as the language code.
LangValues == {"undefined", "''", "en", "sv", "xx", "constructor"}

\* The keys of the locale table (locale.json is not among the sources: en is
\* the key the constructor names, sv the value of the language menu).
LocaleKeys == {"en", "sv"}

\* The names an object literal inherits from Object.prototype.
Inherited == {"constructor"}

\* langs[code]
Lookup(code) ==
  CASE code \in LocaleKeys -> code
    [] code \in Inherited  -> "Object"
    [] OTHER               -> "undefined"

\* The locale the constructor takes for the code it is given.
LocaleFor(code) ==
  LET lang  == IF rev \in {"early", "late"}
                 THEN (IF code = "undefined" THEN "en" ELSE code)   \* editorLang = "en"
                 ELSE (IF Truthy(code) THEN code ELSE "en")         \* if(!lang) lang = "en"
      found == Lookup(lang)
  IN  IF rev = "first" \/ found # "undefined" THEN found ELSE "en"

\* this.tags once the constructor is through with the option v.
StoredTags(v) ==
  IF rev \in {"early", "late"}
    THEN \* [...].concat(tags), with tags = [] for an option left out
         CASE v = "undefined" -> Tags
           [] IsArray(v)      -> Tags \cup Elements(v)
           [] OTHER           -> Tags \cup {v}
    ELSE \* if(tags) tags.forEach(...)
         IF Truthy(v) THEN Tags \cup Elements(v) ELSE Tags

Built(o, l, t) == [outcome |-> o, locale |-> l, tags |-> t]

\* new CMS(a): a.given tells whether an argument is passed at all.
construct(a) ==
  IF ~a.given
    THEN Built("TypeError", "undefined", {})      \* destructuring of undefined
    ELSE IF ~IsArray(a.tags) /\ Truthy(a.tags)
      THEN Built("TypeError", "undefined", {})    \* tags is not an array
      ELSE IF LocaleFor(a.lang) \notin LocaleKeys
        THEN \* this.locale.shortcuts.save
             Built("TypeError", LocaleFor(a.lang), {})
        ELSE Built("instance", LocaleFor(a.lang), StoredTags(a.tags))

\* A call of the constructor that has not run yet.
NewCalls ==
  [fn : {"new"}, arg : [given : {TRUE}, lang : LangValues, tags : TagValues],
   done : {FALSE}]
  \cup {[fn |-> "new", arg |-> [given |-> FALSE, lang |-> "undefined", tags |-> "undefined"],
         done |-> FALSE]}

\* new CMS(...) runs.
New ==
  /\ fcall.fn = "new"
  /\ ~fcall.done
  /\ fcall' = [fn   |-> fcall.fn,
               arg  |-> fcall.arg,
               done |-> TRUE,
               out  |-> construct(fcall.arg)]
  /\ UNCHANGED <<rev, layout, meta, saveUrl, pc, text, classes, attrs, toolbars, prompt,
                 sections, inflight, cursor, loading, saveDisabled, publishDisabled,
                 abortListeners, inputListeners, last>>

\* The functions of the library, each called once on an input of its own.
InitCalls ==
  /\ rev \in Copies
  /\ layout = "flat"
  /\ meta = TRUE
  /\ saveUrl = TRUE
  /\ pc = "constructed"
  /\ text = [n \in Nodes |-> 0]
  /\ classes = [n \in Nodes |-> {}]
  /\ attrs = [n \in Nodes |-> {}]
  /\ toolbars = 0
  /\ prompt = FALSE
  /\ sections = <<>>
  /\ inflight = <<>>
  /\ cursor = ""
  /\ loading = FALSE
  /\ saveDisabled = FALSE
  /\ publishDisabled = FALSE
  /\ abortListeners = 0
  /\ inputListeners = [n \in Nodes |-> 0]
  /\ last = Note("new")
  /\ fcall \in PathCalls \cup NewCalls

NextCalls == GetSelectorPath \/ New

SpecCalls == InitCalls /\ [][NextCalls]_vars

(* ------------------------ ancestor resolution -------------------------- *)

\* The parent chains a click target can have: a node has one parent or none.
WalkChains == {c \in Chains : ~c.cyclic}

\* this.tags.indexOf(name) !== -1, for the one editable name of ChainNames.
InTags(name) == name = "p"

Resolved(o, k, n) == [outcome |-> o, el |-> k, loops |-> n]

RECURSIVE WalkEarly(_, _, _)
\* The while loop of getTopParent of src/src/lib/util.js, at topParent after
\* n iterations.
WalkEarly(c, topParent, n) ==
  IF topParent = 0
    THEN Resolved("TypeError", 0, n)     \* null.localName
    ELSE IF ~InTags(c.names[topParent]) \/ c.names[topParent] = "body"
      THEN WalkEarly(c, parentNode(c, topParent), n + 1)
      ELSE Resolved("element", topParent, n)

RECURSIVE WalkLate(_, _, _)
\* The while loop of getTopParent of src/unnamed/part_001, at currentEl after
\* n iterations: the index below body the chain is collected up to.
WalkLate(c, currentEl, n) ==
  IF currentEl = 0
    THEN Resolved("TypeError", 0, n)     \* null.localName
    ELSE IF c.names[currentEl] # "body"
      THEN WalkLate(c, parentNode(c, currentEl), n + 1)
      ELSE Resolved("body", currentEl, n)

\* getTopParent(e.target, this.tags) || e.target, the target being node 1 of
\* the chain c.
resolveTarget(c) ==
  IF rev = "late"
    THEN LET walk == WalkLate(c, 1, 0)
             hits == {k \in 1..(walk.el - 1) : InTags(c.names[k])}
         IN  IF walk.outcome = "TypeError"
               THEN walk
               ELSE IF hits = {}
                 THEN Resolved("element", 1, walk.loops)     \* || e.target
                 ELSE Resolved("element", CHOOSE k \in hits : \A j \in hits : j <= k,
                               walk.loops)
    ELSE WalkEarly(c, 1, 0)

\* A click whose target has not been resolved yet.
WalkCalls == [fn : {"getTopParent"}, arg : WalkChains, done : {FALSE}]

\* The first line of _addEdit runs.
GetTopParent ==
  /\ fcall.fn = "getTopParent"
  /\ ~fcall.done
  /\ fcall' = [fn   |-> fcall.fn,
               arg  |-> fcall.arg,
               done |-> TRUE,
               out  |-> resolveTarget(fcall.arg)]
  /\ UNCHANGED <<rev, layout, meta, saveUrl, pc, text, classes, attrs, toolbars, prompt,
                 sections, inflight, cursor, loading, saveDisabled, publishDisabled,
                 abortListeners, inputListeners, last>>

InitWalk ==
  /\ rev \in {"early", "late"}
  /\ layout = "flat"
  /\ meta = TRUE
  /\ saveUrl = TRUE
  /\ pc = "running"
  /\ text = [n \in Nodes |-> 0]
  /\ classes = [n \in Nodes |-> {}]
  /\ attrs = [n \in Nodes |-> {}]
  /\ toolbars = 0
  /\ prompt = FALSE
  /\ sections = <<>>
  /\ inflight = <<>>
  /\ cursor = ""
  /\ loading = FALSE
  /\ saveDisabled = FALSE
  /\ publishDisabled = FALSE
  /\ abortListeners = 0
  /\ inputListeners = [n \in Nodes |-> 0]
  /\ fcall \in WalkCalls
  /\ last = Note("new")

SpecWalk == InitWalk /\ [][GetTopParent]_vars

(* --------------------------- toolbar position -------------------------- *)

tbHeight == 40

tbWidth == 200

\* What setPosition reads, in CSS pixels: the rectangle of the element
\* (elLeft, elTop, elHeight, relative to the viewport), the top of the
\* rectangle of body (0 on a page that is not scrolled, negative on a
\* scrolled one) and the size of the window.  el.offsetTop is the distance
\* to the top of body, the offset parent of an element in normal flow.
Geometries ==
  [elLeft : {0, 500, 900}, elTop : {0, 300}, elHeight : {20, 600},
   bodyTop : {0, -200}, innerWidth : {320, 1000}, innerHeight : {600, 900}]

offsetTop(g) == g.elTop - g.bodyTop

\* setPosition of _addLocalToolbar: the four style properties it writes.
setPosition(g) ==
  LET elPosY    == g.elTop - g.bodyTop + g.elHeight + 10
      elPosX    == g.elLeft
      tbViewPos == offsetTop(g) + g.elHeight + 80
      view      == g.innerHeight
  IN  [top    |-> IF tbViewPos > view THEN offsetTop(g) - tbHeight - 10 ELSE elPosY,
       left   |-> IF elPosX + tbWidth > g.innerWidth
                    THEN (g.innerWidth - tbWidth) - 5
                    ELSE elPosX,
       height |-> tbHeight,
       width  |-> tbWidth]

\* A call of setPosition that has not run yet.
PositionCalls == [fn : {"setPosition"}, arg : Geometries, done : {FALSE}]

\* setPosition() runs.
SetPosition ==
  /\ fcall.fn = "setPosition"
  /\ ~fcall.done
  /\ fcall' = [fn   |-> fcall.fn,
               arg  |-> fcall.arg,
               done |-> TRUE,
               out  |-> setPosition(fcall.arg)]
  /\ UNCHANGED <<rev, layout, meta, saveUrl, pc, text, classes, attrs, toolbars, prompt,
                 sections, inflight, cursor, loading, saveDisabled, publishDisabled,
                 abortListeners, inputListeners, last>>

InitPosition ==
  /\ rev = "early"
  /\ layout = "flat"
  /\ meta = TRUE
  /\ saveUrl = TRUE
  /\ pc = "running"
  /\ text = [n \in Nodes |-> 0]
  /\ classes = [n \in Nodes |-> {}]
  /\ attrs = [n \in Nodes |-> {}]
  /\ toolbars = 0
  /\ prompt = FALSE
  /\ sections = <<>>
  /\ inflight = <<>>
  /\ cursor = ""
  /\ loading = FALSE
  /\ saveDisabled = FALSE
  /\ publishDisabled = FALSE
  /\ abortListeners = 0
  /\ inputListeners = [n \in Nodes |-> 0]
  /\ fcall \in PositionCalls
  /\ last = Note("new")

SpecPosition == InitPosition /\ [][SetPosition]_vars

(* ------------------------------ getMetaInfo ---------------------------- *)

\* An element the head may hold: absent, present without the attribute that
\* is read from it, or present with it.
HeadStates == {"absent", "bare", "set"}

\* The pages getMetaInfo reads: the three optional elements of the head, the
\* title and the path.
Heads ==
  [description : HeadStates, keywords : HeadStates, canonical : HeadStates,
   title : {"", "Home"}, pathname : {"/", "/about"}]

\* element.getAttribute(name) on a present element; "null" stands for null.
getAttribute(e) == IF e = "set" THEN "value" ELSE "null"

\* value || ""
OrEmpty(v) == IF v \in {"null", ""} THEN "" ELSE v

\* getMetaInfo of src/unnamed/part_001 on the page h; with the outcome
\* TypeError nothing is returned.
getMetaInfo(h) ==
  IF h.description = "absent" \/ h.keywords = "absent"
    THEN [outcome |-> "TypeError", url |-> "", title |-> "", description |-> "",
          keywords |-> "", canonical |-> ""]      \* null.getAttribute
    ELSE [outcome     |-> "meta",
          url         |-> OrEmpty(h.pathname),
          title       |-> OrEmpty(h.title),
          description |-> OrEmpty(getAttribute(h.description)),
          keywords    |-> OrEmpty(getAttribute(h.keywords)),
          canonical   |-> IF h.canonical = "absent"
                            THEN ""
                            ELSE getAttribute(h.canonical)]

\* A save() of the later revision that has passed its dirty check and has not
\* read the head yet.
MetaCalls == [fn : {"getMetaInfo"}, arg : Heads, done : {FALSE}]

\* save() from getMetaInfo() on: the request is issued when getMetaInfo
\* returns.
GetMetaInfo ==
  /\ fcall.fn = "getMetaInfo"
  /\ ~fcall.done
  /\ LET result == getMetaInfo(fcall.arg)
     IN  /\ fcall' = [fn   |-> fcall.fn,
                      arg  |-> fcall.arg,
                      done |-> TRUE,
                      out  |-> result]
         /\ inflight' = IF result.outcome = "meta"
                          THEN Append(inflight,
                                 Request("save", findChangedSections(sections),
                                         Body_(findChangedSections(sections), sections)))
                          ELSE inflight
         /\ cursor' = IF result.outcome = "meta" THEN "wait" ELSE cursor
         /\ last' = [Note("save") EXCEPT !.sent = (result.outcome = "meta"),
                                         !.threw = (result.outcome = "TypeError")]
  /\ UNCHANGED <<rev, layout, meta, saveUrl, pc, text, classes, attrs, toolbars, prompt,
                 sections, loading, saveDisabled, publishDisabled,
                 abortListeners, inputListeners>>

InitMeta ==
  /\ rev = "late"
  /\ layout = "flat"
  /\ meta = TRUE
  /\ saveUrl = TRUE
  /\ pc = "running"
  /\ text = [n \in Nodes |-> 0]
  /\ classes = [n \in Nodes |-> {}]
  /\ attrs = [n \in Nodes |-> {}]
  /\ toolbars = 0
  /\ prompt = FALSE
  /\ sections = <<>>
  /\ inflight = <<>>
  /\ cursor = ""
  /\ loading = FALSE
  /\ saveDisabled = FALSE
  /\ publishDisabled = FALSE
  /\ abortListeners = 0
  /\ inputListeners = [n \in Nodes |-> 0]
  /\ fcall \in MetaCalls
  /\ last = Note("new")

SpecMeta == InitMeta /\ [][GetMetaInfo]_vars

(* ------------------------------ properties ----------------------------- *)

\* Dirty for save.
Dirty(section) == section.edited_text # section.saved_text

DirtySections == {i \in 1..Len(sections) : Dirty(sections[i])}

\* The regions in Editing state.
Editing == {n \in Nodes : IsEditing(n)}

\* The most recent handler was the rest of a save() or publish() after its
\* request was answered.
Answered(kind, outcomes) ==
  last.op = "response" /\ last.kind = kind /\ last.outcome \in outcomes

\* C1: after a save() whose request was answered 2xx, with no edit committed
\* between the call and the response, no section is dirty for save:
\* findChangedSections(sections) is empty, whatever page run() registered.
C1_SavedLeavesNoneDirty ==
  (Answered("save", {"ok"}) /\ last.quiet) => findChangedSections(sections) = <<>>

\* C2: save() issues no request when no section is dirty for save, whoever
\* calls it (button, shortcut, timer, meta form).  save() of src/src/index.js
\* does not write the registry, so the sections after the call are the ones
\* it read.
C2_NoRequestWhenClean ==
  (last.op = "save" /\ last.sent) => DirtySections # {}

\* The rest of a save() whose request failed changes no section, and the
\* sections it sent are still dirty for save if no edit was committed
\* meanwhile.
FailedSaveChangesNothing ==
  \A i \in 1..Len(inflight), o \in Outcomes \ {"ok"} :
    ((Respond(i, o) \/ RespondRoot(i, o)) /\ inflight[i].kind = "save") =>
      (/\ sections' = sections
       /\ (inflight[i].quiet =>
             \A c \in Range(inflight[i].changed) : Dirty(sections'[c])))

\* A save() called right after a failed one sends every dirty section.
RetrySendsDirty ==
  (/\ Answered("save", Outcomes \ {"ok"})
   /\ DirtySections # {}
   /\ \E src \in SaveSources : Save(src) \/ SaveRoot(src)) =>
     (/\ last'.sent
      /\ DirtySections \subseteq Range(inflight'[Len(inflight')].changed))

C4_FailureReported ==
  (last.op = "response" /\ last.outcome # "ok") => (last.reported /\ ~last.threw)

\* C5: after a publish() whose request was answered 2xx, every section of the
\* registry has original_text = saved_text.
C5_PublishPromotesAll ==
  Answered("publish", {"ok"}) =>
    \A i \in 1..Len(sections) : sections[i].original_text = sections[i].saved_text

\* C5 witness: a publish() has just been answered 2xx, and it promoted a text
\* saved after an edit in one section while another section is dirty for save.
C5_Witness ==
  /\ Answered("publish", {"ok"})
  /\ \E i \in 1..Len(sections) : sections[i].original_text.text > 0
  /\ DirtySections # {}

\* C6: once the page is registered, _changedSinceSave() is true exactly when
\* some section has edited_text # saved_text, _changedSincePublish() is true
\* exactly when some section has saved_text # original_text, and
\* findChangedSections returns exactly the sections with edited_text #
\* saved_text.
C6_DirtyChecksAgree ==
  pc = "running" =>
    /\ changedSinceSave(sections) <=> DirtySections # {}
    /\ changedSincePublish(sections) <=>
         \E i \in 1..Len(sections) : sections[i].saved_text # sections[i].original_text
    /\ Range(findChangedSections(sections)) = DirtySections

\* C7: right after run(), every section has edited_text = saved_text =
\* original_text.
C7_FreshlyRegisteredClean ==
  last.op = "run" =>
    \A i \in 1..Len(sections) :
      /\ sections[i].edited_text = sections[i].saved_text
      /\ sections[i].saved_text = sections[i].original_text

\* C8: in every reachable state at most one region carries the
\* contenteditable attribute.
C8_AtMostOneEditing == Cardinality(Editing) <= 1

\* C9: whenever a region leaves Editing state, its section's edited_text is
\* the region's serialized content at that moment, the region has neither
\* the contenteditable attribute nor the outline, and no local toolbar is
\* left in the document.
C9_ExitCommits ==
  [][\A n \in Nodes :
       (IsEditing(n) /\ "contenteditable" \notin attrs'[n]) =>
         /\ findSection(n, sections') # 0
         /\ sections'[findSection(n, sections')].edited_text =
              innerHTML(n, text', classes', attrs')
         /\ "outline" \notin classes'[n]
         /\ toolbars' = 0
    ]_vars

\* C9 witness: a mousedown has just closed the only region in Editing state,
\* after its text was rewritten.
C9_Witness ==
  /\ last.op = "mousedown"
  /\ Editing = {}
  /\ toolbars = 0
  /\ DirtySections # {}

\* C10: a mousedown whose target is a region in Editing state or an element
\* inside it, or the local toolbar, or that happens while the prompt is
\* shown, leaves that region in Editing state.
C10_StaysEditing ==
  [][\A t \in Targets, n \in Nodes :
       (/\ RemoveEdit(t)
        /\ IsEditing(n)
        /\ \/ t = ToolbarT
           \/ prompt
           \/ t \in Nodes /\ n \in Range(Chain(t))) =>
         "contenteditable" \in attrs'[n]
    ]_vars

\* C11: when the exit transition runs a second time in a row, with no handler
\* and so no Idle -> Editing transition in between, the second run changes no
\* section, no attribute or class of the page and no toolbar, and it ends
\* without an exception.
C11_SecondExitNoOp ==
  [][(last.exit /\ last'.exit) =>
       /\ sections' = sections
       /\ attrs' = attrs
       /\ classes' = classes
       /\ toolbars' = toolbars
       /\ ~last'.threw
    ]_vars

\* C12: a click on the region that is already in Editing state, with its
\* toolbar shown, is a no-op: the attributes and classes of the page, the one
\* local toolbar, the section records and the input listeners attached to
\* the region are what they were before the click.
C12_ReenterNoOp ==
  [][\A t \in Nodes :
       (AddEdit(t, FALSE) /\ IsEditing(t) /\ toolbars = 1) =>
         /\ attrs' = attrs
         /\ classes' = classes
         /\ toolbars' = toolbars
         /\ sections' = sections
         /\ inputListeners' = inputListeners
    ]_vars

\* A key event e can reach the keydown handler with target t.
KeyEventAt(t, e) ==
  /\ pc \in {"constructed", "running"}
  /\ CanCall("shortcut")
  /\ Focusable(t)
  /\ getShortcut(shortcuts, Combo(e)) # 0

\* C13: a key event that matches a shortcut not marked global invokes the
\* action only when its target is inside a region in Editing state; with any
\* other target, a registered region that is not being edited included, the
\* action is not invoked and preventDefault is not called.  A key event that
\* matches a global shortcut is consumed whatever its target, and its action
\* is invoked unless the key is held.
C13_NonGlobalOnlyWhileEditing ==
  \A t \in KeyTargets, e \in KeyEvents :
    KeyEventAt(t, e) =>
      IF shortcuts[getShortcut(shortcuts, Combo(e))].global
        THEN /\ onkeydown(t, e).prevented
             /\ ~e.repeat => onkeydown(t, e).invoked = 1
        ELSE ~InEditingHost(t) =>
               (onkeydown(t, e).invoked = 0 /\ ~onkeydown(t, e).prevented)

\* C14: for every key event that matches a shortcut and is permitted where it
\* happens (the shortcut is global, or the target is inside a region in
\* Editing state), the handler calls preventDefault and
\* stopImmediatePropagation, and it calls the shortcut's action once for a
\* key pressed and not at all for a key held.
C14_MatchedEventConsumed ==
  \A t \in KeyTargets, e \in KeyEvents :
    (/\ KeyEventAt(t, e)
     /\ \/ shortcuts[getShortcut(shortcuts, Combo(e))].global
        \/ InEditingHost(t)) =>
      /\ onkeydown(t, e).prevented
      /\ onkeydown(t, e).stopped
      /\ onkeydown(t, e).invoked = (IF e.repeat THEN 0 ELSE 1)

\* C14 witness: in a region in Editing state a shortcut that is not global
\* was pressed and its action called once; the key, still held, can repeat.
C14_Witness ==
  /\ last.op = "shortcut"
  /\ last.prevented /\ last.stopped /\ last.invoked = 1
  /\ \E n \in Nodes : IsEditing(n) /\ text[n] > 0
  /\ \E t \in KeyTargets, e \in KeyEvents :
       KeyEventAt(t, e) /\ InEditingHost(t) /\ e.repeat

\* The element behind section i: its element field, or, in src/index.js, the
\* first match of its path.
ElementOf(i) ==
  IF rev = "root" THEN querySelector(sections[i].path) ELSE sections[i].element

\* The serialized content of the element behind section i, as it is now.
LiveContent(i) == innerHTML(ElementOf(i), text, classes, attrs)

\* C15: right after a call of save(), whoever made it, every section's
\* edited_text is the live content of its element.  A save() of
\* src/src/index.js writes neither the registry nor the page, so this is the
\* registry its dirty check read.
C15_SaveSeesLiveContent ==
  last.op = "save" =>
    \A i \in 1..Len(sections) : sections[i].edited_text = LiveContent(i)

\* The request r carried content for the section with this path.
Carried(r, path, content) ==
  \E k \in 1..Len(r.body) :
    r.body[k].path = path /\ r.body[k].edited_text = content

\* C16: a section's saved_text changes only in the step that ends a save()
\* or publish() on a 2xx response, and its new value is a content the body
\* of that request carried for the section: what was committed while the
\* request was awaiting its response is not marked saved by it.
C16_SavedIsWhatWasSent ==
  [][\A j \in 1..Len(sections) :
       sections'[j].saved_text # sections[j].saved_text =>
         \E i \in 1..Len(inflight) :
           /\ Respond(i, "ok") \/ RespondRoot(i, "ok")
           /\ Carried(inflight[i], sections[j].path, sections'[j].saved_text)
    ]_vars

\* C17: a save() that sends a request while an earlier save request is still
\* awaiting its response carries, for no section, the content the earlier
\* request carried for it: the same content is not sent twice.
C17_NoResend ==
  [][(last'.op = "save" /\ last'.sent /\ Len(inflight') = Len(inflight) + 1) =>
       \A i \in 1..Len(inflight), k \in 1..Len(inflight'[Len(inflight')].body) :
         inflight[i].kind = "save" =>
           ~Carried(inflight[i],
                    inflight'[Len(inflight')].body[k].path,
                    inflight'[Len(inflight')].body[k].edited_text)
    ]_vars

\* C18: the busy indicator (the wait cursor of the body, the loading class of
\* the root revision) is set only while a request of save() or publish() is
\* awaiting its response: it is cleared when the operation ends, whatever the
\* response, and when the operation returns without a request.
C18_BusyOnlyWhilePending == (cursor = "wait" \/ loading) => inflight # <<>>

\* C19: once run() has returned, no two records of the registry have the
\* same path and no two records are backed by the same element.
C19_RegistryUnique ==
  pc = "running" =>
    \A i, j \in 1..Len(sections) :
      i # j => /\ sections[i].path # sections[j].path
               /\ ElementOf(i) # ElementOf(j)

\* C20: for every element below body, the path computed for it resolves,
\* by the first match in document order, to that element.
C20_PathRoundTrip == \A el \in Nodes : querySelector(PathOf(el, classes)) = el

\* C21: the path of a registered element does not depend on whether the
\* element is being edited: computed now, with every class the editor has
\* put on the page, it is the path recorded at registration.
C21_PathStableWhileEditing ==
  pc = "running" =>
    \A i \in 1..Len(sections) :
      ElementOf(i) # Body => PathOf(ElementOf(i), classes) = sections[i].path

\* The parent chain c does not lead to body: el has no parent, or the chain
\* ends above el without a body.
ChainMissing(c) ==
  /\ ~c.cyclic
  /\ \A k \in 2..Len(c.names) : c.names[k] # "body"

\* C22: getSelectorPath returns undefined, and raises nothing, for the html
\* element and for a node whose parent chain is missing.
C22_UndefinedOffTree ==
  (/\ fcall.fn = "getSelectorPath"
   /\ fcall.done
   /\ fcall.arg.names[1] = "html" \/ ChainMissing(fcall.arg))
  => fcall.out.outcome = "undefined"

\* C23: the climb of getSelectorPath ends within the iteration cap on every
\* parent chain, a cyclic one included; a walk that meets the cap returns
\* the path built so far.
C23_ClimbCapped ==
  (fcall.fn = "getSelectorPath" /\ fcall.done) =>
    /\ fcall.out.outcome # "hangs"
    /\ fcall.out.loops <= ClimbCap + 2
    /\ fcall.out.loops > ClimbCap => fcall.out.outcome = "path"

\* C24: with the auth option set, every request of save() and publish()
\* awaiting its response carries an Authorization header whose value is the
\* credential.
C24_RequestsCarryAuth ==
  auth # "" => \A i \in 1..Len(inflight) : inflight[i].authorization = auth

\* C25: new CMS(), with no argument at all, raises nothing and gives an
\* instance with the default options.
C25_NoArgumentConstructs ==
  (fcall.fn = "new" /\ fcall.done /\ ~fcall.arg.given) =>
    /\ fcall.out.outcome = "instance"
    /\ fcall.out.locale = "en"
    /\ fcall.out.tags = Tags

\* C26: the constructor raises a TypeError for every tags option handed
\* over that is not an array, the falsy ones included.
C26_NonArrayTagsRejected ==
  (/\ fcall.fn = "new"
   /\ fcall.done
   /\ fcall.arg.given
   /\ fcall.arg.tags # "undefined"
   /\ ~IsArray(fcall.arg.tags))
  => fcall.out.outcome = "TypeError"

\* C27: construction with a valid tags option succeeds for every language
\* code; the locale is the one of the code when the code is a key of the
\* locale table, and the English one when it is not or when none is given.
C27_LocaleFallback ==
  (/\ fcall.fn = "new"
   /\ fcall.done
   /\ fcall.arg.given
   /\ fcall.arg.tags = "undefined" \/ IsArray(fcall.arg.tags))
  => /\ fcall.out.outcome = "instance"
     /\ fcall.out.locale = IF fcall.arg.lang \in LocaleKeys
                             THEN fcall.arg.lang
                             ELSE "en"

\* A server that answers every request with 2xx.
RespondOk == \E i \in 1..MaxOverlap : Respond(i, "ok")

\* The late revision with that server: the user edits, save() is called by
\* the button, the shortcut, the meta form and the timer.
NextConverge ==
  \/ Run
  \/ \E t \in Nodes, ctrl \in BOOLEAN : AddEdit(t, ctrl)
  \/ \E t \in Targets : RemoveEdit(t)
  \/ \E n \in Nodes : Input(n)
  \/ \E src \in SaveSources : Save(src)
  \/ RespondOk

\* The timer set by run() keeps firing and every request is answered; the
\* user may stop at any moment.
SpecConverge ==
  /\ InitLate
  /\ [][NextConverge]_vars
  /\ WF_vars(Save("timer"))
  /\ WF_vars(RespondOk)

\* A step of the user on the page.
UserEdits == <<text, classes, attrs, toolbars, inputListeners>>' #
             <<text, classes, attrs, toolbars, inputListeners>>

\* C28: once the user has stopped editing, with save() called again and
\* again and every request answered 2xx, the registry reaches a state with
\* no section dirty for save and stays there.  Stated for the pages that
\* have the meta tags save() reads.
C28_Converges == (meta /\ <>[][~UserEdits]_vars) => <>[](DirtySections = {})

\* C29: the busy indicator is set in every state in which a request of
\* save() or publish() is awaiting its response, also when another request
\* has been answered in the meantime.
C29_BusyWhilePending == inflight # <<>> => (cursor = "wait" \/ loading)

\* No section is changed for publish: saved_text is original_text in each.
NothingToPublish ==
  \A i \in 1..Len(sections) : sections[i].saved_text = sections[i].original_text

\* C30: a publish() called while no section is changed for publish sends no
\* request and changes nothing, whether or not a section has unsaved edits.
C30_PublishNothingWhenUnchanged ==
  [][(last'.op = "publish" /\ NothingToPublish) =>
       (~last'.sent /\ inflight' = inflight /\ UNCHANGED rest)]_vars

\* The step leaves the field f of every section as it is.
Keeps(f) ==
  /\ Len(sections') = Len(sections)
  /\ \A i \in 1..Len(sections) : sections'[i][f] = sections[i][f]

\* C31: every step keeps the sections there are, with their path and
\* element; leaving edit mode writes edited_text only, the rest of save()
\* after its response saved_text only, the rest of publish() after its
\* response original_text only.
C31_OwnFieldOnly ==
  [][/\ Len(sections') >= Len(sections)
     /\ \A i \in 1..Len(sections) :
          /\ sections'[i].path = sections[i].path
          /\ sections'[i].element = sections[i].element
     /\ last'.exit => (Keeps("saved_text") /\ Keeps("original_text"))
     /\ (last'.op = "response" /\ last'.kind = "save")
          => (Keeps("edited_text") /\ Keeps("original_text"))
     /\ (last'.op = "response" /\ last'.kind = "publish")
          => (Keeps("edited_text") /\ Keeps("saved_text"))
    ]_vars

\* C32: once run() has returned, the save button is disabled exactly when no
\* section is dirty for save, and the publish button exactly when no section
\* is changed for publish.
C32_ButtonsReflectDirty ==
  pc = "running" =>
    /\ saveDisabled = (DirtySections = {})
    /\ publishDisabled = NothingToPublish

\* C33: a click inside a registered region makes editable the nearest
\* ancestor-or-self of the target whose tag is editable, and that element has
\* a section record.
C33_NearestRegistered ==
  (pc = "running" /\ rev \in {"early", "late"}) =>
    \A t \in Nodes :
      ClicksReached(t) > 0 =>
        /\ addEditElement(t) = getTopParentNearest(t)
        /\ findSection(addEditElement(t), sections) # 0

\* C34: the ancestor resolution of a click ends on every parent chain after
\* at most as many steps as the chain has nodes, without raising, and when no
\* node of the chain has an editable tag no element is resolved (the click is
\* ignored).
C34_WalkEnds ==
  (fcall.fn = "getTopParent" /\ fcall.done) =>
    /\ fcall.out.outcome # "TypeError"
    /\ fcall.out.loops <= Len(fcall.arg.names)
    /\ (\A k \in 1..Len(fcall.arg.names) : ~InTags(fcall.arg.names[k]))
         => fcall.out.outcome # "element"

\* C35: the position setPosition writes lies inside the viewport:
\* 0 <= left, left + width <= window.innerWidth, 0 <= top and
\* top + height <= window.innerHeight.
C35_InsideViewport ==
  (fcall.fn = "setPosition" /\ fcall.done) =>
    /\ 0 <= fcall.out.left
    /\ fcall.out.left + fcall.out.width <= fcall.arg.innerWidth
    /\ 0 <= fcall.out.top
    /\ fcall.out.top + fcall.out.height <= fcall.arg.innerHeight

\* C36: the document holds at most one local toolbar, and it holds one
\* exactly when some region is in Editing state.
C36_ToolbarIffEditing ==
  /\ toolbars <= 1
  /\ (toolbars = 1) <=> (Editing # {})

\* The handlers of src/index.js in a session where the keyboard is used only
\* to cancel: regions are entered by a click, left by a mousedown or by
\* Escape, and saved from the toolbar.
NextCancel ==
  \/ Run
  \/ \E t \in Nodes : Edit(t)
  \/ \E t \in RootTargets, ctrl \in BOOLEAN : HandleAbort(t, ctrl)
  \/ \E t \in Nodes : OnKeydown(t, "Escape")
  \/ \E n \in Nodes : Input(n)
  \/ SaveRoot("button")
  \/ \E i \in 1..MaxInFlight, o \in Outcomes : RespondRoot(i, o)

SpecCancel == InitRoot /\ [][NextCancel]_vars

\* Section i is closed and its element holds content that was typed and never
\* committed: it is none of the three texts of the record.
Cancelled(i) ==
  /\ ElementOf(i) \notin Editing
  /\ LiveContent(i) \notin {sections[i].edited_text, sections[i].saved_text,
                            sections[i].original_text}

\* The step neither commits the cancelled content of section i nor adds a
\* request that carries it.
Discards(i) ==
  /\ sections'[i].edited_text # LiveContent(i)
  /\ \A k \in 1..Len(inflight') :
       k > Len(inflight) => ~Carried(inflight'[k], sections[i].path, LiveContent(i))

\* C37: in src/index.js Escape in an active region closes it (it leaves
\* Editing state) without changing the edited_text of any section, and the
\* save() that follows the cancel neither commits nor sends the content that
\* was typed before it.
C37_EscapeDiscards ==
  [][/\ last'.op = "keydown"
          => (Keeps("edited_text") /\ Editing' # Editing /\ Editing' \subseteq Editing)
     /\ (last.op = "keydown" /\ last'.op = "save")
          => \A i \in 1..Len(sections) : Cancelled(i) => Discards(i)
    ]_vars

\* C38: getMetaInfo returns on every page, the save request is issued, and
\* the field of an optional element that is absent, or present without its
\* attribute, is the empty string.
C38_MetaOptional ==
  (fcall.fn = "getMetaInfo" /\ fcall.done) =>
    /\ fcall.out.outcome = "meta"
    /\ last.sent /\ Len(inflight) = 1
    /\ \A f \in {"description", "keywords", "canonical"} :
         fcall.arg[f] # "set" => fcall.out[f] = ""

====
